---- MODULE Spec2Model ----
(***************************************************************************)
(* The palomadex deploy script: scripts/deploy/run.sh launching one of the *)
(* two versions of the deploy script (scripts/deploy/index.js and the      *)
(* earlier copy kept as unnamed/part_000).  The script is one async        *)
(* function, main; the model has one action per await of main and of the   *)
(* helpers it calls: the action is the arrival of the awaited result       *)
(* together with the synchronous code that runs up to the next await.      *)
(* The chain client (cosmjs), the chain and the operator at the keyboard   *)
(* are the environment: every client call answers with any outcome the     *)
(* library can produce, and the operator edits the configuration files     *)
(* while the script is paused at a prompt.                                 *)
(***************************************************************************)
EXTENDS Integers, Sequences, FiniteSets, TLC

VARIABLES
    version,      \* which script file runs: "index.js" or "part_000"
    launcher,     \* "run.sh" (the launch script) or "node" (the script run directly)
    MNEMONIC,     \* env["MNEMONIC"]: [set |-> BOOLEAN, len |-> its length]
    nodeChainId,  \* the chain ID the RPC node reports
    pc,           \* the await the process is parked at
    exitStatus,   \* Running, or the status given to process.exit / exit
    stderr,       \* what console.error printed, in order
    stdout,       \* the milestones console.info printed, in order
    local,        \* the local variables of main
    calls,        \* every client request issued so far, in order
    inflight,     \* indices (into calls) of the requests not yet answered
    nextAddr,     \* the chain's counter of created contracts
    files,        \* contents of the files under configs/
    reads,        \* the paths fs.readFileSync has been called on, in order
    written,      \* the reports written to result.json, in order
    confirmed,    \* how many prompts the operator has answered
    atConfirm,    \* the contents of configs/ when each prompt was answered
    results,      \* the answer the client gave to each request, in order
    commands,     \* the commands run.sh has run, in order
    ret           \* the outcome of a helper of index.js called on its own

vars == <<version, launcher, MNEMONIC, nodeChainId, pc, exitStatus, stderr,
          stdout, local, calls, inflight, nextAddr, files, reads, written,
          confirmed, atConfirm, results, commands, ret>>

----------------------------------------------------------------------------
(* Bounds of the model *)

\* longest create_pairs list of configs/factory_config.json
MaxPairs == 2
\* longest adapters list of configs/gauges_config.json
MaxAdapters == 2
\* longest gauges list of configs/gauges_config.json
MaxGauges == 2
\* number of distinct contents the operator can give a configuration file
MaxRev == 2
\* most events in the result of one create-pair transaction
MaxEvents == 2

----------------------------------------------------------------------------
(* Values *)

\* JavaScript's undefined, as a contract address or code ID
Undefined == 0

\* a contract address the chain assigns: disjoint from code IDs and Undefined
Addr(n) == 1000 + n

\* the exit status of a process that has not exited
Running == 0 - 1

\* the file paths of the script
factoryConfigPath == "configs/factory_config.json"
palomaConfigPath == "configs/paloma_config.json"
multiHopConfigPath == "configs/multi_hop_config.json"
gaugesConfigPath == "configs/gauges_config.json"

\* the code IDs main hard-codes in place of the commented-out uploads
tokenCodeId == 6
pairCodeId == 7
pairStableCodeId == 8
stakeCodeId == 9
factoryCodeId == 5
multiHopCodeId == 10
gaugeOrchestratorCodeId == 11
gaugeAdapterCodeId == 12

\* the factory address part_000 hard-codes in place of the factory instantiate
\* ("paloma1sthrn5ep8ls5v..."): an address no call of the run returned
HardCodedFactoryAddress == Addr(0)

\* the shortest MNEMONIC getMnemonic accepts
MinMnemonicLength == 48

ChainIds == {"paloma-testnet", "other-chain"}

\* palomaConfig.chainId of configs/paloma_config.json
palomaConfig == [chainId |-> "paloma-testnet"]

\* the error messages a client call can fail with: the one message the upload
\* and instantiate helpers look for, and any other
Base64Message == "Invalid string. Length must be a multiple of 4"
OtherMessage == "some other failure"

\* an error thrown by the client: its message, and whether error.response
\* carries an uploadReceipt with a codeId
ClientErrors ==
    { [message |-> OtherMessage, receipt |-> Undefined],
      [message |-> Base64Message, receipt |-> Undefined],
      [message |-> Base64Message, receipt |-> 21] }

\* errors raised by the script itself or by the JavaScript runtime
MnemonicError == [message |-> "Must set MNEMONIC to a 12 word phrase", receipt |-> Undefined]
ChainIdError == [message |-> "Given ChainId doesn't match the clients ChainID!", receipt |-> Undefined]
ReferenceErrorWallet == [message |-> "ReferenceError: wallet is not defined", receipt |-> Undefined]
ReferenceErrorLabel == [message |-> "ReferenceError: label is not defined", receipt |-> Undefined]
TypeErrorEvents == [message |-> "TypeError: cannot read properties of undefined", receipt |-> Undefined]

NoError == [message |-> "", receipt |-> Undefined]

----------------------------------------------------------------------------
(* The configuration files.  A file's content is identified by a revision  *)
(* number: each edit of the operator gives the file another revision, and  *)
(* the messages in it carry the revision they were written in.             *)

Revs == 1..MaxRev

\* configs/factory_config.json: label, instantiate message, create_pairs list
FactoryConfig(rev, n) ==
    [ label |-> "factory",
      instantiate |-> rev,
      create_pairs |-> [i \in 1..n |-> [create_pair |-> 100 * rev + i]] ]

\* configs/multi_hop_config.json: label and instantiate message
MultiHopConfig(rev) == [label |-> "multi-hop", instantiate |-> rev]

\* configs/gauges_config.json: orchestrator, adapters list and the list of
\* create_gauge messages; adapter[i] is the adapter address written in the
\* i-th create_gauge message
GaugesConfig(rev, na, adapter) ==
    [ orchestrator |-> [label |-> "gauge-orchestrator", instantiate |-> rev],
      adapters |-> [i \in 1..na |-> [label |-> i, instantiate |-> rev]],
      gauges |-> [i \in 1..Len(adapter) |->
                    [create_gauge |-> [title |-> i, adapter |-> adapter[i]]]] ]

\* the adapter addresses written in the create_gauge messages of a gauges config
AdaptersIn(config) ==
    [i \in 1..Len(config.gauges) |-> config.gauges[i].create_gauge.adapter]

\* the chain's answer to a create-pair message: the name of the pair
PairNameOf(msg) == msg.create_pair

\* main's local variables before any of them is assigned
InitLocal ==
    [ factoryConfig |-> FactoryConfig(1, 0),
      factoryAddress |-> Undefined,
      multiHopConfig |-> MultiHopConfig(1),
      multiHopAddress |-> Undefined,
      pairs |-> <<>>,
      gaugesConfig |-> GaugesConfig(1, 0, <<>>),
      gaugeOrchestratorAddress |-> Undefined,
      gaugeAdapters |-> <<>>,
      gauges |-> <<>>,
      i |-> 0 ]

\* no helper has been called on its own
NoReturn == [helper |-> "none", threw |-> FALSE, error |-> NoError, value |-> Undefined]

Init ==
    /\ version \in {"index.js", "part_000"}
    /\ launcher \in {"run.sh", "node"}
    /\ MNEMONIC \in {[set |-> FALSE, len |-> 0]} \cup
                    {[set |-> TRUE, len |-> n] :
                        n \in {0, MinMnemonicLength - 1, MinMnemonicLength}}
    /\ nodeChainId \in ChainIds
    /\ pc = IF launcher = "run.sh" THEN "run.sh" ELSE "main"
    /\ exitStatus = Running
    /\ stderr = <<>>
    /\ stdout = <<>>
    /\ local = InitLocal
    /\ calls = <<>>
    /\ inflight = {}
    /\ nextAddr = 1
    /\ \E np \in 0..MaxPairs, na \in 0..MaxAdapters, ng \in 0..MaxGauges :
          files = [ factory |-> FactoryConfig(1, np),
                    multiHop |-> MultiHopConfig(1),
                    gauges |-> GaugesConfig(1, na, [i \in 1..ng |-> Undefined]) ]
    /\ reads = <<>>
    /\ written = <<>>
    /\ confirmed = 0
    /\ atConfirm = <<>>
    /\ results = <<>>
    /\ commands = <<>>
    /\ ret = NoReturn

envVars == <<version, launcher, MNEMONIC, nodeChainId>>
operatorVars == <<files, confirmed, atConfirm>>
chainVars == <<nextAddr, results>>
\* what main never touches
outsideMain == <<commands, ret>>

----------------------------------------------------------------------------
(* Requests to the client *)

Request(op, to, msg) == [op |-> op, to |-> to, msg |-> msg]

\* the request the process is parked on (the last one issued) is answered
Complete == inflight \ {Len(calls)}

\* the awaited request is answered and the next one is issued and awaited
Send(req) ==
    /\ calls' = Append(calls, req)
    /\ inflight' = Complete \cup {Len(calls) + 1}

\* the awaited request is answered and no request is issued
NoSend ==
    /\ calls' = calls
    /\ inflight' = Complete

\* the chain transactions among the client calls
Transactions == {"upload", "instantiate", "execute"}

\* error.message.includes("Invalid string. Length must be a multiple of 4")
IsBase64Error(error) == error.message = Base64Message

\* the client answers the awaited request, the last one issued: with the
\* values of its result, or with an error
Answer(ok, values, error) ==
    results' = Append(results, [call |-> Len(calls), ok |-> ok,
                                values |-> values, error |-> error])

\* main() rejects: the rejection handler prints the error and exits 1
Reject(error) ==
    /\ pc' = "exited"
    /\ exitStatus' = 1
    /\ stderr' = Append(stderr, error)
    /\ NoSend
    /\ UNCHANGED <<stdout, local, reads, written>>

\* connect's catch block prints error.message and re-throws: main() rejects
ConnectCatch(error) ==
    /\ pc' = "exited"
    /\ exitStatus' = 1
    /\ stderr' = stderr \o <<error, error>>
    /\ NoSend
    /\ UNCHANGED <<stdout, local, reads, written>>

\* the process moves to its next await after issuing req
Await(next, req) ==
    /\ pc' = next
    /\ Send(req)
    /\ UNCHANGED <<exitStatus, stderr, stdout, local, reads, written>>

----------------------------------------------------------------------------
(* run.sh and the start of main *)

\* run.sh: [[ -z "${MNEMONIC}" ]]
MnemonicIsEmpty(m) == ~m.set \/ m.len = 0

\* the commands run.sh runs once MNEMONIC is known to be set
RunShCommands == <<"npm install", "npm run deploy">>

\* run.sh: exit 1 on an empty MNEMONIC, else npm install; npm run deploy
RunSh ==
    /\ pc = "run.sh"
    /\ IF MnemonicIsEmpty(MNEMONIC)
       THEN /\ pc' = "exited"
            /\ exitStatus' = 1
            /\ stderr' = Append(stderr, [message |-> "MNEMONIC env has not been set!", receipt |-> Undefined])
            /\ UNCHANGED commands
       ELSE /\ pc' = "main"
            /\ commands' = commands \o RunShCommands
            /\ UNCHANGED <<exitStatus, stderr>>
    /\ UNCHANGED <<stdout, local, calls, inflight, reads, written, ret>>
    /\ UNCHANGED <<envVars, operatorVars, chainVars>>

\* a mutant of getMnemonicThrows: the length check is left out
getMnemonicThrows_NoLength(m) == ~m.set \/ m.len = 0

\* getMnemonic: !mnemonic || mnemonic.length < 48
getMnemonicThrows(m) == ~m.set \/ m.len = 0 \/ m.len < MinMnemonicLength

\* main up to its first await: getMnemonic, the read of the paloma config,
\* and connect up to DirectSecp256k1HdWallet.fromMnemonic
MainStart ==
    /\ pc = "main"
    /\ IF getMnemonicThrows(MNEMONIC)
       THEN Reject(MnemonicError)
       ELSE /\ pc' = "fromMnemonic"
            /\ reads' = Append(reads, palomaConfigPath)
            /\ Send(Request("fromMnemonic", Undefined, Undefined))
            /\ UNCHANGED <<exitStatus, stderr, stdout, local, written>>
    /\ UNCHANGED <<envVars, outsideMain, operatorVars, chainVars>>

\* a plain client call of connect answers: with an error, or with a result
\* after which connect issues its next call
ConnectStep(at, next, nextOp, catch) ==
    /\ pc = at
    /\ \/ \E error \in ClientErrors :
            /\ IF catch THEN ConnectCatch(error) ELSE Reject(error)
            /\ Answer(FALSE, {}, error)
       \/ /\ Await(next, Request(nextOp, Undefined, Undefined))
          /\ Answer(TRUE, {}, NoError)
    /\ UNCHANGED <<envVars, outsideMain, operatorVars, nextAddr>>

\* await DirectSecp256k1HdWallet.fromMnemonic(...), outside connect's try
WalletFromMnemonic == ConnectStep("fromMnemonic", "getAccounts", "getAccounts", FALSE)

\* await wallet.getAccounts(), outside connect's try
GetAccounts == ConnectStep("getAccounts", "connectWithSigner", "connectWithSigner", FALSE)

\* await SigningCosmWasmClient.connectWithSigner(...), inside the try
ConnectWithSigner == ConnectStep("connectWithSigner", "getBalance", "getBalance", TRUE)

\* await client.getBalance(address, feeToken), inside the try
GetBalance == ConnectStep("getBalance", "getChainId", "getChainId", TRUE)

\* a mutant of ChainIdMismatch: the comparison is left out
ChainIdMismatch_NoCheck(chainId) == FALSE

\* connect: chainId !== palomaConfig.chainId
ChainIdMismatch(chainId) == chainId # palomaConfig.chainId

\* await client.getChainId(): connect compares the chain IDs and returns;
\* main prints the hard-coded code IDs and asks the first question
GetChainId ==
    /\ pc = "getChainId"
    /\ \/ \E error \in ClientErrors :
            /\ ConnectCatch(error)
            /\ Answer(FALSE, {}, error)
       \/ /\ IF ChainIdMismatch(nodeChainId)
             THEN ConnectCatch(ChainIdError)
             ELSE /\ pc' = "ask1"
                  /\ NoSend
                  /\ UNCHANGED <<exitStatus, stderr, stdout, local, reads, written>>
          /\ Answer(TRUE, {}, NoError)
    /\ UNCHANGED <<envVars, outsideMain, operatorVars, nextAddr>>

----------------------------------------------------------------------------
(* The operator *)

\* The operator edits configs/factory_config.json while the first question
\* is on the screen ("Update configs/factory_config.json ...")
EditFactoryConfig ==
    /\ pc = "ask1"
    /\ \E rev \in Revs \ {files.factory.instantiate} :
          files' = [files EXCEPT
                      !.factory = FactoryConfig(rev, Len(@.create_pairs))]
    /\ UNCHANGED <<pc, exitStatus, stderr, stdout, local, calls, inflight,
                   reads, written, confirmed, atConfirm>>
    /\ UNCHANGED <<envVars, outsideMain, chainVars>>

\* The operator edits configs/multi_hop_config.json while the second question
\* is on the screen ("Update configs/multi_hop_config.json and ...")
EditMultiHopConfig ==
    /\ pc = "ask2"
    /\ \E rev \in Revs \ {files.multiHop.instantiate} :
          files' = [files EXCEPT !.multiHop = MultiHopConfig(rev)]
    /\ UNCHANGED <<pc, exitStatus, stderr, stdout, local, calls, inflight,
                   reads, written, confirmed, atConfirm>>
    /\ UNCHANGED <<envVars, outsideMain, chainVars>>

\* The operator edits configs/gauges_config.json while the second or the
\* third question, which both name the file, is on the screen
EditGaugesConfig ==
    /\ pc \in {"ask2", "ask3"}
    /\ \E rev \in Revs \ {files.gauges.orchestrator.instantiate} :
          files' = [files EXCEPT
                      !.gauges = GaugesConfig(rev, Len(@.adapters), AdaptersIn(@))]
    /\ UNCHANGED <<pc, exitStatus, stderr, stdout, local, calls, inflight,
                   reads, written, confirmed, atConfirm>>
    /\ UNCHANGED <<envVars, outsideMain, chainVars>>

\* The operator does what the third question asks: "paste proper gaugeAdapter
\* addresses into proper create_gauge messages", from the addresses printed
PasteGaugeAdapters ==
    /\ pc = "ask3"
    /\ Len(local.gaugeAdapters) > 0
    /\ LET n == Len(local.gaugeAdapters)
           pasted == [i \in 1..Len(files.gauges.gauges) |->
                        local.gaugeAdapters[((i - 1) % n) + 1].address]
       IN  /\ pasted # AdaptersIn(files.gauges)
           /\ files' = [files EXCEPT
                          !.gauges = GaugesConfig(@.orchestrator.instantiate,
                                                  Len(@.adapters), pasted)]
    /\ UNCHANGED <<pc, exitStatus, stderr, stdout, local, calls, inflight,
                   reads, written, confirmed, atConfirm>>
    /\ UNCHANGED <<envVars, outsideMain, chainVars>>

\* await stdio.ask(...): the operator presses ENTER at the k-th question
OperatorAnswers(k) ==
    /\ confirmed' = k
    /\ atConfirm' = Append(atConfirm, files)
    /\ UNCHANGED files

----------------------------------------------------------------------------
(* The answers of the client *)

\* what client.instantiate answers: the address of the new contract, or an error
InstantiateResponses ==
    {[ok |-> TRUE, contractAddress |-> Addr(nextAddr), error |-> NoError]} \cup
    {[ok |-> FALSE, contractAddress |-> Undefined, error |-> e] : e \in ClientErrors}

\* what client.execute answers: an error, or a result whose first log has a
\* wasm event with the given attributes, has a wasm event without them, or
\* has no wasm event at all
ExecuteResponses(attributes) ==
    {[ok |-> TRUE, wasm |-> TRUE, attributes |-> attributes, error |-> NoError],
     [ok |-> TRUE, wasm |-> TRUE, attributes |-> {}, error |-> NoError],
     [ok |-> TRUE, wasm |-> FALSE, attributes |-> {}, error |-> NoError]} \cup
    {[ok |-> FALSE, wasm |-> FALSE, attributes |-> {}, error |-> e] : e \in ClientErrors}

\* wasmEvent.find(element => element.key === key) finds an attribute
HasKey(attributes, key) == \E a \in attributes : a.key = key

\* the value of the attribute found
ValueOf(attributes, key) == (CHOOSE a \in attributes : a.key = key).value

\* a transaction is answered: a successful one created a contract and
\* returned the given values
AfterResponse(response, values) ==
    /\ nextAddr' = IF response.ok THEN nextAddr + 1 ELSE nextAddr
    /\ Answer(response.ok, IF response.ok THEN values ELSE {}, response.error)

----------------------------------------------------------------------------
(* main of part_000, from its end to the first question *)

\* a mutant of Raport: a copy-and-paste slip records the factory address as
\* the multi-hop address
Raport_WrongMultiHop(l) ==
    [ tokenCodeId |-> tokenCodeId,
      pairCodeId |-> pairCodeId,
      pairStableCodeId |-> pairStableCodeId,
      stakeCodeId |-> stakeCodeId,
      multiHopCodeId |-> multiHopCodeId,
      factoryCodeId |-> factoryCodeId,
      gaugeOrchestratorCodeId |-> gaugeOrchestratorCodeId,
      gaugeAdapterCodeId |-> gaugeAdapterCodeId,
      factoryAddress |-> l.factoryAddress,
      multiHopAddress |-> l.factoryAddress,
      pairs |-> l.pairs,
      gaugeOrchestratorAddress |-> l.gaugeOrchestratorAddress,
      gaugeAdapters |-> l.gaugeAdapters,
      gauges |-> l.gauges ]

\* the raport object of part_000
Raport(l) ==
    [ tokenCodeId |-> tokenCodeId,
      pairCodeId |-> pairCodeId,
      pairStableCodeId |-> pairStableCodeId,
      stakeCodeId |-> stakeCodeId,
      multiHopCodeId |-> multiHopCodeId,
      factoryCodeId |-> factoryCodeId,
      gaugeOrchestratorCodeId |-> gaugeOrchestratorCodeId,
      gaugeAdapterCodeId |-> gaugeAdapterCodeId,
      factoryAddress |-> l.factoryAddress,
      multiHopAddress |-> l.multiHopAddress,
      pairs |-> l.pairs,
      gaugeOrchestratorAddress |-> l.gaugeOrchestratorAddress,
      gaugeAdapters |-> l.gaugeAdapters,
      gauges |-> l.gauges ]

\* fs.writeFileSync("result.json", ...); main resolves and the fulfilment
\* handler prints "All done" and exits 0
WriteReport(l) ==
    /\ local' = l
    /\ written' = Append(written, Raport(l))
    /\ stdout' = stdout \o <<"Result was saved to result.json file!",
                             "All done, let the coins flow.">>
    /\ pc' = "exited"
    /\ exitStatus' = 0
    /\ NoSend
    /\ UNCHANGED <<stderr, reads>>

\* a mutant of EnterCreateGauges: result.json is written before the gauges
\* are created
EnterCreateGauges_ReportFirst(l, messages) ==
    LET l0 == [l EXCEPT !.gauges = <<>>, !.i = 1]
    IN  IF Len(messages) = 0
        THEN WriteReport(l0)
        ELSE /\ local' = l0
             /\ pc' = "createGauges"
             /\ written' = Append(written, Raport(l0))
             /\ Send(Request("execute", l.gaugeOrchestratorAddress, messages[1]))
             /\ UNCHANGED <<exitStatus, stderr, stdout, reads>>

\* createGauges(client, address, gasPrice, messages, gaugeOrchestratorAddress):
\* up to the first await of its loop
EnterCreateGauges(l, messages) ==
    LET l0 == [l EXCEPT !.gauges = <<>>, !.i = 1]
    IN  IF Len(messages) = 0
        THEN WriteReport(l0)
        ELSE /\ local' = l0
             /\ pc' = "createGauges"
             /\ Send(Request("execute", l.gaugeOrchestratorAddress, messages[1]))
             /\ UNCHANGED <<exitStatus, stderr, stdout, reads, written>>

\* main asks the third question
AskThird(l) ==
    /\ local' = l
    /\ pc' = "ask3"
    /\ NoSend
    /\ UNCHANGED <<exitStatus, stderr, stdout, reads, written>>

\* a mutant of EnterGaugeAdapters: the instantiate calls of the loop are not
\* awaited one by one but all issued at once
EnterGaugeAdapters_NoAwait(l) ==
    LET l0 == [l EXCEPT !.gaugeAdapters = <<>>, !.i = 1]
        config == l.gaugesConfig.adapters
    IN  IF Len(config) = 0
        THEN AskThird(l0)
        ELSE /\ local' = l0
             /\ pc' = "adapters"
             /\ calls' = calls \o [i \in 1..Len(config) |->
                           Request("instantiate", gaugeAdapterCodeId, config[i].instantiate)]
             /\ inflight' = Complete \cup (Len(calls) + 1)..(Len(calls) + Len(config))
             /\ UNCHANGED <<exitStatus, stderr, stdout, reads, written>>

\* instantiateGaugeAdapters(client, address, gasPrice, codeId, config): up to
\* the first await of its loop
EnterGaugeAdapters(l) ==
    LET l0 == [l EXCEPT !.gaugeAdapters = <<>>, !.i = 1]
        config == l.gaugesConfig.adapters
    IN  IF Len(config) = 0
        THEN AskThird(l0)
        ELSE /\ local' = l0
             /\ pc' = "adapters"
             /\ Send(Request("instantiate", gaugeAdapterCodeId, config[1].instantiate))
             /\ UNCHANGED <<exitStatus, stderr, stdout, reads, written>>

\* main reads configs/gauges_config.json and instantiates the orchestrator
EnterGauges(l) ==
    /\ reads' = Append(reads, gaugesConfigPath)
    /\ local' = [l EXCEPT !.gaugesConfig = files.gauges]
    /\ pc' = "orchestrator"
    /\ Send(Request("instantiate", gaugeOrchestratorCodeId,
                    files.gauges.orchestrator.instantiate))
    /\ UNCHANGED <<exitStatus, stderr, stdout, written>>

\* createPairsAndDistributionFlows(client, address, gasPrice, config,
\* factoryAddress): up to the first await of its loop
EnterCreatePairs(l) ==
    LET l0 == [l EXCEPT !.pairs = <<>>, !.i = 1]
        messages == l.factoryConfig.create_pairs
    IN  IF Len(messages) = 0
        THEN EnterGauges(l0)
        ELSE /\ local' = l0
             /\ pc' = "createPairs"
             /\ Send(Request("execute", l.factoryAddress, messages[1]))
             /\ UNCHANGED <<exitStatus, stderr, stdout, reads, written>>

----------------------------------------------------------------------------
(* The steps of main after the chain ID check *)

\* The operator answers the first question.  index.js goes on to build
\* cw20InstantiateMsg, whose minter is the variable wallet, which main never
\* declares: a ReferenceError.  part_000 reads the factory config and takes
\* the hard-coded factory address, then asks the second question.
ConfirmAsk1 ==
    /\ pc = "ask1"
    /\ OperatorAnswers(1)
    /\ \/ /\ version = "index.js"
          /\ Reject(ReferenceErrorWallet)
       \/ /\ version = "part_000"
          /\ reads' = Append(reads, factoryConfigPath)
          /\ local' = [local EXCEPT !.factoryConfig = files.factory,
                                    !.factoryAddress = HardCodedFactoryAddress]
          /\ pc' = "ask2"
          /\ NoSend
          /\ UNCHANGED <<exitStatus, stderr, stdout, written>>
    /\ UNCHANGED <<envVars, outsideMain, chainVars>>

\* a mutant of ConfirmAsk2: the multi-hop config is read before the second
\* question is asked, so main uses the file as it was when the script paused
ConfirmAsk2_ReadBeforeAsk ==
    /\ pc = "ask2"
    /\ OperatorAnswers(2)
    /\ reads' = Append(reads, multiHopConfigPath)
    /\ local' = [local EXCEPT !.multiHopConfig = atConfirm[1].multiHop]
    /\ pc' = "multiHop"
    /\ Send(Request("instantiate", multiHopCodeId, atConfirm[1].multiHop.instantiate))
    /\ UNCHANGED <<exitStatus, stderr, stdout, written>>
    /\ UNCHANGED <<envVars, outsideMain, chainVars>>

\* The operator answers the second question: main reads the multi-hop config
\* and instantiateContract issues client.instantiate
ConfirmAsk2 ==
    /\ pc = "ask2"
    /\ OperatorAnswers(2)
    /\ reads' = Append(reads, multiHopConfigPath)
    /\ local' = [local EXCEPT !.multiHopConfig = files.multiHop]
    /\ pc' = "multiHop"
    /\ Send(Request("instantiate", multiHopCodeId, files.multiHop.instantiate))
    /\ UNCHANGED <<exitStatus, stderr, stdout, written>>
    /\ UNCHANGED <<envVars, outsideMain, chainVars>>

\* a mutant of instantiateContract: the catch block swallows every error
instantiateContract_SwallowAll(response) ==
    IF response.ok
    THEN [threw |-> FALSE, error |-> NoError, value |-> response.contractAddress]
    ELSE [threw |-> FALSE, error |-> NoError, value |-> Undefined]

\* instantiateContract after client.instantiate answered: the address; or,
\* on the base64 error, undefined when the error carries no upload receipt
\* and a ReferenceError (label is not declared in this function) when it
\* does; any other error is thrown again
instantiateContract(response) ==
    IF response.ok
    THEN [threw |-> FALSE, error |-> NoError, value |-> response.contractAddress]
    ELSE IF IsBase64Error(response.error)
         THEN IF response.error.receipt # Undefined
              THEN [threw |-> TRUE, error |-> ReferenceErrorLabel, value |-> Undefined]
              ELSE [threw |-> FALSE, error |-> NoError, value |-> Undefined]
         ELSE [threw |-> TRUE, error |-> response.error, value |-> Undefined]

\* client.instantiate of the multi-hop contract answers
MultiHopInstantiated ==
    /\ pc = "multiHop"
    /\ \E response \in InstantiateResponses :
          LET result == instantiateContract(response)
          IN  /\ AfterResponse(response, {response.contractAddress})
              /\ IF result.threw
                 THEN Reject(result.error)
                 ELSE EnterCreatePairs([local EXCEPT !.multiHopAddress = result.value])
    /\ UNCHANGED <<envVars, outsideMain, operatorVars>>

\* the attributes of the wasm event a create-pair message emits
PairEvent(msg) ==
    { [key |-> "pair", value |-> PairNameOf(msg)],
      [key |-> "pair_contract_addr", value |-> Addr(nextAddr)] }

\* client.execute of the i-th create-pair message answers
PairCreated ==
    /\ pc = "createPairs"
    /\ LET messages == local.factoryConfig.create_pairs
           i == local.i
       IN  \E response \in ExecuteResponses(PairEvent(messages[i])) :
              /\ AfterResponse(response, {a.value : a \in response.attributes})
              /\ IF ~response.ok
                 THEN Reject(response.error)
                 ELSE IF \/ ~response.wasm
                         \/ ~HasKey(response.attributes, "pair")
                         \/ ~HasKey(response.attributes, "pair_contract_addr")
                 THEN Reject(TypeErrorEvents)
                 ELSE LET pairInfo ==
                            [pairName |-> ValueOf(response.attributes, "pair"),
                             pairAddress |-> ValueOf(response.attributes, "pair_contract_addr")]
                          l == [local EXCEPT !.pairs = Append(@, pairInfo),
                                             !.i = i + 1]
                      IN  IF i + 1 > Len(messages)
                          THEN EnterGauges(l)
                          ELSE /\ local' = l
                               /\ pc' = "createPairs"
                               /\ Send(Request("execute", local.factoryAddress,
                                               messages[i + 1]))
                               /\ UNCHANGED <<exitStatus, stderr, stdout, reads, written>>
    /\ UNCHANGED <<envVars, outsideMain, operatorVars>>

\* client.instantiate of the gauge orchestrator answers
OrchestratorInstantiated ==
    /\ pc = "orchestrator"
    /\ \E response \in InstantiateResponses :
          LET result == instantiateContract(response)
          IN  /\ AfterResponse(response, {response.contractAddress})
              /\ IF result.threw
                 THEN Reject(result.error)
                 ELSE EnterGaugeAdapters(
                        [local EXCEPT !.gaugeOrchestratorAddress = result.value])
    /\ UNCHANGED <<envVars, outsideMain, operatorVars>>

\* client.instantiate of the i-th gauge adapter answers
AdapterInstantiated ==
    /\ pc = "adapters"
    /\ LET config == local.gaugesConfig.adapters
           i == local.i
       IN  \E response \in InstantiateResponses :
              /\ AfterResponse(response, {response.contractAddress})
              /\ IF ~response.ok
                 THEN Reject(response.error)
                 ELSE LET adapter == [label |-> config[i].label,
                                      address |-> response.contractAddress]
                          l == [local EXCEPT !.gaugeAdapters = Append(@, adapter),
                                             !.i = i + 1]
                      IN  IF i + 1 > Len(config)
                          THEN AskThird(l)
                          ELSE /\ local' = l
                               /\ pc' = "adapters"
                               /\ Send(Request("instantiate", gaugeAdapterCodeId,
                                               config[i + 1].instantiate))
                               /\ UNCHANGED <<exitStatus, stderr, stdout, reads, written>>
    /\ UNCHANGED <<envVars, outsideMain, operatorVars>>

\* The operator answers the third question: createGauges runs on the gauges
\* of the gaugesConfig object main parsed before it instantiated the orchestrator
ConfirmAsk3 ==
    /\ pc = "ask3"
    /\ OperatorAnswers(3)
    /\ EnterCreateGauges(local, local.gaugesConfig.gauges)
    /\ UNCHANGED <<envVars, outsideMain, chainVars>>

\* the attributes of the wasm event a create-gauge message emits
GaugeEvent == { [key |-> "_contract_address", value |-> Addr(nextAddr)] }

\* client.execute of the i-th create-gauge message answers
GaugeCreated ==
    /\ pc = "createGauges"
    /\ LET messages == local.gaugesConfig.gauges
           i == local.i
       IN  \E response \in ExecuteResponses(GaugeEvent) :
              /\ AfterResponse(response, {a.value : a \in response.attributes})
              /\ IF ~response.ok
                 THEN Reject(response.error)
                 ELSE IF \/ ~response.wasm
                         \/ ~HasKey(response.attributes, "_contract_address")
                 THEN Reject(TypeErrorEvents)
                 ELSE LET gaugeInfo ==
                            [gaugeLabel |-> messages[i].create_gauge.title,
                             gaugeAddress |-> ValueOf(response.attributes, "_contract_address")]
                          l == [local EXCEPT !.gauges = Append(@, gaugeInfo),
                                             !.i = i + 1]
                      IN  IF i + 1 > Len(messages)
                          THEN WriteReport(l)
                          ELSE /\ local' = l
                               /\ pc' = "createGauges"
                               /\ Send(Request("execute", local.gaugeOrchestratorAddress,
                                               messages[i + 1]))
                               /\ UNCHANGED <<exitStatus, stderr, stdout, reads, written>>
    /\ UNCHANGED <<envVars, outsideMain, operatorVars>>

----------------------------------------------------------------------------

Next ==
    \/ RunSh
    \/ MainStart
    \/ WalletFromMnemonic
    \/ GetAccounts
    \/ ConnectWithSigner
    \/ GetBalance
    \/ GetChainId
    \/ EditFactoryConfig
    \/ EditMultiHopConfig
    \/ EditGaugesConfig
    \/ PasteGaugeAdapters
    \/ ConfirmAsk1
    \/ ConfirmAsk2
    \/ MultiHopInstantiated
    \/ PairCreated
    \/ OrchestratorInstantiated
    \/ AdapterInstantiated
    \/ ConfirmAsk3
    \/ GaugeCreated

Spec == Init /\ [][Next]_vars

----------------------------------------------------------------------------
(* The helpers of index.js called on their own.  main of index.js stops at *)
(* its first use of the undeclared wallet, so the helpers it would call    *)
(* after that line are modelled as functions applied to arguments drawn    *)
(* from small sets: one call of one helper, with the client answering each *)
(* request with any outcome the library can produce.                       *)

\* error.response.uploadReceipt.codeId, and the code ID a successful upload returns
UploadResponses ==
    {[ok |-> TRUE, codeId |-> 30 + nextAddr, error |-> NoError]} \cup
    {[ok |-> FALSE, codeId |-> Undefined, error |-> e] : e \in ClientErrors}

\* storeContract after client.upload answered: the code ID of the receipt;
\* on the base64 error the code ID of the receipt the error carries, or
\* undefined when it carries none; any other error is thrown again
storeContract(response) ==
    IF response.ok
    THEN [threw |-> FALSE, error |-> NoError, value |-> response.codeId]
    ELSE IF IsBase64Error(response.error)
         THEN [threw |-> FALSE, error |-> NoError, value |-> response.error.receipt]
         ELSE [threw |-> TRUE, error |-> response.error, value |-> Undefined]

\* the labels of the three contracts of the DAO that main uploads
DaoLabels == {"dao-core", "proposal-single", "cw4-stake"}

\* the helper returned a value, or threw
Outcome(helper, result) ==
    [helper |-> helper, threw |-> result.threw, error |-> result.error,
     value |-> result.value]

\* the helper was called and has not returned yet
Pending(helper) == [NoReturn EXCEPT !.helper = helper]

\* storeContract(client, wallet, gasPrice, label, wasmPath) is called
CallStoreContract ==
    /\ pc = "helper"
    /\ \E label \in DaoLabels :
          /\ pc' = "storeContract"
          /\ ret' = Pending("storeContract")
          /\ Send(Request("upload", Undefined, label))
    /\ UNCHANGED <<exitStatus, stderr, stdout, local, reads, written, commands>>
    /\ UNCHANGED <<envVars, operatorVars, chainVars>>

\* client.upload answers
ContractStored ==
    /\ pc = "storeContract"
    /\ \E response \in UploadResponses :
          /\ AfterResponse(response, {response.codeId})
          /\ ret' = Outcome("storeContract", storeContract(response))
    /\ pc' = "returned"
    /\ NoSend
    /\ UNCHANGED <<exitStatus, stderr, stdout, local, reads, written, commands>>
    /\ UNCHANGED <<envVars, operatorVars>>

\* daoCoreInstantiateMsg: the fields that carry an argument of the helper;
\* the message of the voting module is the base64 encoding of a JSON text,
\* kept here as the object it encodes
DaoCoreInstantiateMsg(wallet, cw4StakeCodeId, proposalSingleCodeId, cw20Contract) ==
    [ admin |-> wallet,
      voting_module_instantiate_info |->
          [ code_id |-> cw4StakeCodeId,
            msg |-> [cw20_contract |-> cw20Contract, admin |-> wallet],
            label |-> "CW4 Stake Voting Module" ],
      proposal_modules_instantiate_info |->
          << [ code_id |-> proposalSingleCodeId,
               label |-> "Proposal Single Module" ] >> ]

\* instantiateDaoCoreWithModules(client, wallet, gasPrice, daoCoreCodeId,
\* cw4StakeCodeId, proposalSingleCodeId, cw20Contract) is called
CallInstantiateDaoCore ==
    /\ pc = "helper"
    /\ \E daoCoreCodeId \in {Undefined, 31}, cw4StakeCodeId \in {Undefined, 32},
          proposalSingleCodeId \in {Undefined, 33}, cw20Contract \in {Undefined, Addr(0)} :
          /\ pc' = "instantiateDaoCore"
          /\ ret' = Pending("instantiateDaoCoreWithModules")
          /\ Send(Request("instantiate", daoCoreCodeId,
                          DaoCoreInstantiateMsg("wallet", cw4StakeCodeId,
                                                proposalSingleCodeId, cw20Contract)))
    /\ UNCHANGED <<exitStatus, stderr, stdout, local, reads, written, commands>>
    /\ UNCHANGED <<envVars, operatorVars, chainVars>>

\* client.instantiate of the DAO core answers: the helper has no try block
DaoCoreInstantiated ==
    /\ pc = "instantiateDaoCore"
    /\ \E response \in InstantiateResponses :
          /\ AfterResponse(response, {response.contractAddress})
          /\ ret' = Outcome("instantiateDaoCoreWithModules",
                            [threw |-> ~response.ok, error |-> response.error,
                             value |-> response.contractAddress])
    /\ pc' = "returned"
    /\ NoSend
    /\ UNCHANGED <<exitStatus, stderr, stdout, local, reads, written, commands>>
    /\ UNCHANGED <<envVars, operatorVars>>

\* the error createPairsAndDistributionFlows of index.js throws itself
NoWasmEventsError == [message |-> "No 'wasm' events found.", receipt |-> Undefined]

\* String.prototype.trim on the event types of the model
Trim(type) == IF type \in {" wasm", "wasm "} THEN "wasm" ELSE type

\* the events one create-pair transaction can carry: a wasm event with both
\* attributes, one whose type is padded, one with the pair attribute only,
\* and an event of another type
PairEvents(msg) ==
    { [type |-> "wasm", attributes |-> PairEvent(msg)],
      [type |-> " wasm", attributes |-> PairEvent(msg)],
      [type |-> "wasm", attributes |-> {a \in PairEvent(msg) : a.key = "pair"}],
      [type |-> "message", attributes |-> PairEvent(msg)] }

\* result.events of a create-pair transaction
EventLists(msg) == UNION {[1..n -> PairEvents(msg)] : n \in 0..MaxEvents}

\* what client.execute answers to index.js: an error, or a result with events
IndexExecuteResponses(msg) ==
    {[ok |-> TRUE, events |-> es, error |-> NoError] : es \in EventLists(msg)} \cup
    {[ok |-> FALSE, events |-> <<>>, error |-> e] : e \in ClientErrors}

\* a mutant of WasmEvents: the event type is compared as it is, not trimmed
WasmEvents_NoTrim(events) == SelectSeq(events, LAMBDA e : e.type = "wasm")

\* result.events.filter((e) => e.type.trim() === "wasm")
WasmEvents(events) == SelectSeq(events, LAMBDA e : Trim(e.type) = "wasm")

\* wasmEvents.forEach: a pairInfo is pushed for every event that has both the
\* pair and the pair_contract_addr attribute
RECURSIVE PushPairs(_, _)
PushPairs(pairs, wasmEvents) ==
    IF wasmEvents = <<>>
    THEN pairs
    ELSE LET event == Head(wasmEvents)
             pairName == HasKey(event.attributes, "pair")
             pairAddress == HasKey(event.attributes, "pair_contract_addr")
         IN  PushPairs(IF pairName /\ pairAddress
                       THEN Append(pairs,
                              [pairName |-> ValueOf(event.attributes, "pair"),
                               pairAddress |-> ValueOf(event.attributes, "pair_contract_addr")])
                       ELSE pairs,
                       Tail(wasmEvents))

\* createPairsAndDistributionFlows(client, wallet, gasPrice, config,
\* factoryAddress) of index.js is called: up to the first await of its loop
CallCreatePairs ==
    /\ pc = "helper"
    /\ \E factoryAddress \in {Addr(0)} :
          LET config == files.factory
          IN  /\ local' = [local EXCEPT !.factoryConfig = config,
                                        !.factoryAddress = factoryAddress,
                                        !.pairs = <<>>, !.i = 1]
              /\ reads' = reads
              /\ IF Len(config.create_pairs) = 0
                 THEN /\ pc' = "returned"
                      /\ ret' = Outcome("createPairsAndDistributionFlows",
                                  [threw |-> FALSE, error |-> NoError, value |-> <<>>])
                      /\ UNCHANGED <<calls, inflight>>
                 ELSE /\ pc' = "index.createPairs"
                      /\ ret' = Pending("createPairsAndDistributionFlows")
                      /\ Send(Request("execute", factoryAddress, config.create_pairs[1]))
    /\ UNCHANGED <<exitStatus, stderr, stdout, written, commands>>
    /\ UNCHANGED <<envVars, operatorVars, chainVars>>

\* client.execute of the i-th create-pair message answers index.js
IndexPairCreated ==
    /\ pc = "index.createPairs"
    /\ LET messages == local.factoryConfig.create_pairs
           i == local.i
       IN  \E response \in IndexExecuteResponses(messages[i]) :
              LET wasmEvents == WasmEvents(response.events)
                  pairs == PushPairs(local.pairs, wasmEvents)
                  threw == IF ~response.ok THEN response.error
                           ELSE IF Len(wasmEvents) = 0 THEN NoWasmEventsError
                           ELSE NoError
              IN  /\ nextAddr' = IF response.ok THEN nextAddr + 1 ELSE nextAddr
                  /\ results' = Append(results,
                        [call |-> Len(calls), ok |-> response.ok,
                         values |-> UNION {{a.value : a \in response.events[p].attributes} :
                                             p \in 1..Len(response.events)},
                         error |-> response.error, events |-> response.events])
                  /\ IF threw # NoError
                     THEN /\ pc' = "returned"
                          /\ ret' = Outcome("createPairsAndDistributionFlows",
                                      [threw |-> TRUE, error |-> threw, value |-> Undefined])
                          /\ NoSend
                          /\ UNCHANGED local
                     ELSE IF i + 1 > Len(messages)
                     THEN /\ pc' = "returned"
                          /\ ret' = Outcome("createPairsAndDistributionFlows",
                                      [threw |-> FALSE, error |-> NoError, value |-> pairs])
                          /\ NoSend
                          /\ local' = [local EXCEPT !.pairs = pairs, !.i = i + 1]
                     ELSE /\ pc' = "index.createPairs"
                          /\ ret' = ret
                          /\ Send(Request("execute", local.factoryAddress, messages[i + 1]))
                          /\ local' = [local EXCEPT !.pairs = pairs, !.i = i + 1]
    /\ UNCHANGED <<exitStatus, stderr, stdout, reads, written, commands>>
    /\ UNCHANGED <<envVars, operatorVars>>

\* one helper of index.js is about to be called
HelperInit ==
    /\ version = "index.js"
    /\ launcher = "node"
    /\ MNEMONIC = [set |-> TRUE, len |-> MinMnemonicLength]
    /\ nodeChainId = palomaConfig.chainId
    /\ pc = "helper"
    /\ exitStatus = Running
    /\ stderr = <<>>
    /\ stdout = <<>>
    /\ local = InitLocal
    /\ calls = <<>>
    /\ inflight = {}
    /\ nextAddr = 1
    /\ \E np \in 0..MaxPairs :
          files = [ factory |-> FactoryConfig(1, np),
                    multiHop |-> MultiHopConfig(1),
                    gauges |-> GaugesConfig(1, 0, <<>>) ]
    /\ reads = <<>>
    /\ written = <<>>
    /\ confirmed = 0
    /\ atConfirm = <<>>
    /\ results = <<>>
    /\ commands = <<>>
    /\ ret = NoReturn

HelperNext ==
    \/ CallStoreContract
    \/ ContractStored
    \/ CallInstantiateDaoCore
    \/ DaoCoreInstantiated
    \/ CallCreatePairs
    \/ IndexPairCreated

\* the two mains, and the helpers of index.js called on their own
HelperSpec == (Init \/ HelperInit) /\ [][Next \/ HelperNext]_vars

----------------------------------------------------------------------------
(* Vocabulary of the properties *)

InSeq(x, seq) == \E i \in 1..Len(seq) : seq[i] = x

\* every value a client call or the parsing of its events returned
Collected == UNION {results[j].values : j \in 1..Len(results)}

\* the values the client returned for the k-th request
ReturnedBy(k) ==
    UNION {results[j].values : j \in {i \in 1..Len(results) : results[i].call = k}}

IsTransaction(req) == req.op \in Transactions
IsInstantiateOf(req, codeId) == req.op = "instantiate" /\ req.to = codeId
IsCreatePair(req) == req.op = "execute" /\ "create_pair" \in DOMAIN req.msg
IsCreateGauge(req) == req.op = "execute" /\ "create_gauge" \in DOMAIN req.msg

\* the code IDs and addresses a report holds
ReportValues(r) ==
    { r.tokenCodeId, r.pairCodeId, r.pairStableCodeId, r.stakeCodeId,
      r.multiHopCodeId, r.factoryCodeId, r.gaugeOrchestratorCodeId,
      r.gaugeAdapterCodeId, r.factoryAddress, r.multiHopAddress,
      r.gaugeOrchestratorAddress } \cup
    {r.pairs[i].pairName : i \in 1..Len(r.pairs)} \cup
    {r.pairs[i].pairAddress : i \in 1..Len(r.pairs)} \cup
    {r.gaugeAdapters[i].address : i \in 1..Len(r.gaugeAdapters)} \cup
    {r.gauges[i].gaugeAddress : i \in 1..Len(r.gauges)}

\* the code IDs a report holds
ReportCodeIds(r) ==
    { r.tokenCodeId, r.pairCodeId, r.pairStableCodeId, r.stakeCodeId,
      r.multiHopCodeId, r.factoryCodeId, r.gaugeOrchestratorCodeId,
      r.gaugeAdapterCodeId }

MnemonicIsValid == MNEMONIC.set /\ MNEMONIC.len >= MinMnemonicLength

ChainIdMatches == nodeChainId = palomaConfig.chainId

\* no client call threw, and every execute result carried the wasm event
\* attributes the script reads
EveryCallSucceeded ==
    /\ \A j \in 1..Len(results) : results[j].ok
    /\ ~InSeq(TypeErrorEvents, stderr)

----------------------------------------------------------------------------
(* C1: in both versions of the script, a run of main with a valid MNEMONIC, *)
(* a matching chain ID, only successful client calls and every question    *)
(* answered writes result.json and exits with status 0.  Stated on the     *)
(* finished run: such a run has written result.json and exited 0.  It      *)
(* fails for index.js, which throws a ReferenceError (wallet) right after  *)
(* the first question.                                                     *)
C1_SuccessfulRunWritesReport ==
    (pc = "exited" /\ MnemonicIsValid /\ ChainIdMatches /\ EveryCallSucceeded)
        => (exitStatus = 0 /\ Len(written) = 1)

----------------------------------------------------------------------------
----------------------------------------------------------------------------
(* C3: the factory address that is the target of every create-pair execute *)
(* and that the report records as factoryAddress is the address returned   *)
(* by the factory instantiate call made earlier in the same run.  It fails *)
(* for part_000, which hard-codes the address and makes no such call.      *)
C3_FactoryAddressFromInstantiate ==
    LET fromFactoryInstantiate ==
            UNION {ReturnedBy(k) : k \in {i \in 1..Len(calls) :
                                     IsInstantiateOf(calls[i], factoryCodeId)}}
    IN  /\ \A k \in 1..Len(calls) :
              IsCreatePair(calls[k]) => calls[k].to \in fromFactoryInstantiate
        /\ \A k \in 1..Len(written) :
              written[k].factoryAddress \in fromFactoryInstantiate

----------------------------------------------------------------------------
(* C4: no upload, instantiate or execute is issued unless connect has      *)
(* first seen the client report the chain ID of palomaConfig; when the IDs *)
(* differ, the run ends with exit status 1 and no transaction sent.        *)
C4_NoTransactionOnOtherChain ==
    LET chainIdSeen == \E j \in 1..Len(results) :
                          calls[results[j].call].op = "getChainId" /\ results[j].ok
    IN  /\ (\E k \in 1..Len(calls) : IsTransaction(calls[k]))
              => (chainIdSeen /\ ChainIdMatches)
        /\ (chainIdSeen /\ ~ChainIdMatches)
              => /\ pc = "exited"
                 /\ exitStatus = 1
                 /\ \A k \in 1..Len(calls) : ~IsTransaction(calls[k])

\* a transaction has been issued, on the chain of the configuration
C4_Witness ==
    /\ ChainIdMatches
    /\ \E k \in 1..Len(calls) : IsTransaction(calls[k])

----------------------------------------------------------------------------
(* C5: when a client call fails with an error whose message does not       *)
(* contain the base64 message, the script issues no further client call,   *)
(* does not write result.json, prints the error and exits with status 1.   *)
C5_OtherErrorEndsRun ==
    \A j \in 1..Len(results) :
        (~results[j].ok /\ ~IsBase64Error(results[j].error))
            => /\ Len(calls) = results[j].call
               /\ inflight = {}
               /\ written = <<>>
               /\ InSeq(results[j].error, stderr)
               /\ pc = "exited"
               /\ exitStatus = 1

\* an instantiate or execute failed with another error, after earlier
\* transactions of the run had succeeded
C5_Witness ==
    \E j \in 1..Len(results) :
        /\ ~results[j].ok
        /\ ~IsBase64Error(results[j].error)
        /\ IsTransaction(calls[results[j].call])
        /\ Collected # {}

----------------------------------------------------------------------------
\* the client requests of a run of part_000 in the order the script lists
\* them, for the configuration main has read
ScriptOrder ==
    <<Request("fromMnemonic", Undefined, Undefined),
      Request("getAccounts", Undefined, Undefined),
      Request("connectWithSigner", Undefined, Undefined),
      Request("getBalance", Undefined, Undefined),
      Request("getChainId", Undefined, Undefined),
      Request("instantiate", multiHopCodeId, local.multiHopConfig.instantiate)>>
    \o [i \in 1..Len(local.factoryConfig.create_pairs) |->
          Request("execute", local.factoryAddress, local.factoryConfig.create_pairs[i])]
    \o <<Request("instantiate", gaugeOrchestratorCodeId,
                 local.gaugesConfig.orchestrator.instantiate)>>
    \o [i \in 1..Len(local.gaugesConfig.adapters) |->
          Request("instantiate", gaugeAdapterCodeId, local.gaugesConfig.adapters[i].instantiate)]
    \o [i \in 1..Len(local.gaugesConfig.gauges) |->
          Request("execute", local.gaugeOrchestratorAddress, local.gaugesConfig.gauges[i])]

(* C6: execution is strictly sequential: at most one client request is     *)
(* outstanding at any time, every request is issued only after the one     *)
(* before it was answered, and the requests are issued in the order the    *)
(* script lists them: the calls of connect, the multi-hop instantiate, one *)
(* execute per create-pair message, the orchestrator instantiate, one      *)
(* instantiate per gauge adapter, one execute per create-gauge message.    *)
C6_StrictlySequential ==
    /\ Cardinality(inflight) <= 1
    /\ \A k \in 2..Len(calls) : \E j \in 1..Len(results) : results[j].call = k - 1
    /\ Len(calls) <= Len(ScriptOrder)
    /\ \A k \in 1..Len(calls) : calls[k] = ScriptOrder[k]

\* a run went through every step, with two pairs, two adapters and two gauges
C6_Witness ==
    /\ Len(written) = 1
    /\ Len(local.pairs) >= 2
    /\ Len(local.gaugeAdapters) >= 2
    /\ Len(local.gauges) >= 2

----------------------------------------------------------------------------
(* C7: every code ID passed to an instantiate call or recorded in the      *)
(* report is the codeId returned by an upload call made earlier in the     *)
(* same run.  It fails: both versions hard-code the eight code IDs and      *)
(* leave the uploads commented out.                                        *)
C7_CodeIdsFromUploads ==
    LET uploaded == UNION {ReturnedBy(k) : k \in {i \in 1..Len(calls) :
                                             calls[i].op = "upload"}}
    IN  /\ \A k \in 1..Len(calls) :
              calls[k].op = "instantiate" => calls[k].to \in uploaded
        /\ \A k \in 1..Len(written) : ReportCodeIds(written[k]) \subseteq uploaded

----------------------------------------------------------------------------
(* C8: configs/factory_config.json is read, and the factory instantiate    *)
(* issued, only after the operator answered the first question;            *)
(* configs/multi_hop_config.json is read, and the multi-hop instantiate    *)
(* issued, only after the operator answered the second question; the       *)
(* values used are those of the files as the operator left them when       *)
(* answering.                                                              *)
C8_ConfigsReadAfterConfirm ==
    /\ InSeq(factoryConfigPath, reads)
          => (confirmed >= 1 /\ local.factoryConfig = atConfirm[1].factory)
    /\ \A k \in 1..Len(calls) :
          IsInstantiateOf(calls[k], factoryCodeId)
             => (confirmed >= 1 /\ calls[k].msg = atConfirm[1].factory.instantiate)
    /\ InSeq(multiHopConfigPath, reads)
          => (confirmed >= 2 /\ local.multiHopConfig = atConfirm[2].multiHop)
    /\ \A k \in 1..Len(calls) :
          IsInstantiateOf(calls[k], multiHopCodeId)
             => (confirmed >= 2 /\ calls[k].msg = atConfirm[2].multiHop.instantiate)

\* the multi-hop instantiate was issued after the operator edited the factory
\* config during the first pause and the multi-hop config during the second
C8_Witness ==
    /\ confirmed >= 2
    /\ \E k \in 1..Len(calls) : IsInstantiateOf(calls[k], multiHopCodeId)
    /\ atConfirm[2].multiHop # atConfirm[1].multiHop
    /\ atConfirm[1].factory.instantiate # 1
    /\ local.factoryConfig = atConfirm[1].factory

----------------------------------------------------------------------------
(* C9: in part_000 the create_gauge messages createGauges executes are the *)
(* gauges of configs/gauges_config.json as the operator left the file when *)
(* answering the third question.  It fails: main parses the file before    *)
(* it instantiates the orchestrator and never reads it again, so what the  *)
(* operator pastes during the third pause is not sent.                     *)
C9_GaugesAsConfirmed ==
    LET sent == SelectSeq(calls, IsCreateGauge)
    IN  \A i \in 1..Len(sent) :
           /\ confirmed >= 3
           /\ i <= Len(atConfirm[3].gauges.gauges)
           /\ sent[i].msg = atConfirm[3].gauges.gauges[i]

----------------------------------------------------------------------------
(* C10: if MNEMONIC is unset, empty or shorter than 48 characters, the run *)
(* fails before the chain config is read, before a wallet is derived and   *)
(* before a connection is opened, and the exit status is not zero; run.sh  *)
(* exits 1 on an unset or empty MNEMONIC without starting the deploy, and  *)
(* getMnemonic throws otherwise.                                           *)
C10_BadMnemonicFailsEarly ==
    ~MnemonicIsValid =>
        /\ ~InSeq(palomaConfigPath, reads)
        /\ \A k \in 1..Len(calls) :
              calls[k].op \notin {"fromMnemonic", "connectWithSigner"}
        /\ calls = <<>>
        /\ pc \in {"run.sh", "main", "exited"}
        /\ pc = "exited" => exitStatus = 1
        /\ (launcher = "run.sh" /\ (~MNEMONIC.set \/ MNEMONIC.len = 0))
              => (pc # "main" /\ ~InSeq(MnemonicError, stderr))
        /\ (pc = "exited" /\ ~(launcher = "run.sh" /\ (~MNEMONIC.set \/ MNEMONIC.len = 0)))
              => InSeq(MnemonicError, stderr)

\* run.sh started the deploy with a 47-character MNEMONIC and getMnemonic threw
C10_Witness ==
    /\ launcher = "run.sh"
    /\ MNEMONIC.set
    /\ MNEMONIC.len = MinMnemonicLength - 1
    /\ pc = "exited"
    /\ exitStatus = 1

----------------------------------------------------------------------------
\* the step README.md says run.sh performs before storing the binaries
ChecksumCheck == "check checksums"

\* the run of run.sh checked the checksums before it started the deploy
ChecksumsCheckedFirst ==
    \E i \in 1..Len(commands) :
        /\ commands[i] = ChecksumCheck
        /\ \A j \in 1..i : commands[j] # "npm run deploy"

(* C11: launching run.sh checks the checksums of the contract binaries     *)
(* first and only then proceeds to store the wasm binaries: once run.sh    *)
(* has started the deploy the checksum check has completed, and no upload  *)
(* is issued in a run of run.sh before it has.  It fails: run.sh runs npm  *)
(* install and npm run deploy and nothing else.                            *)
C11_ChecksumsBeforeUploads ==
    launcher = "run.sh" =>
        /\ InSeq("npm run deploy", commands) => ChecksumsCheckedFirst
        /\ (\E k \in 1..Len(calls) : calls[k].op = "upload")
              => ChecksumsCheckedFirst

----------------------------------------------------------------------------
\* the upload storeContract issues for the contract with the given label
IsUploadOf(req, label) == req.op = "upload" /\ req.msg = label

\* the k-th request is the DAO core instantiate and every value its message
\* carries was returned by an earlier, answered call of the run
DaoCoreInstantiateAt(k) ==
    \E t, d, p, s \in 1..(k - 1) :
        /\ {t, d, p, s} \cap inflight = {}
        /\ IsInstantiateOf(calls[t], tokenCodeId)
        /\ IsUploadOf(calls[d], "dao-core")
        /\ IsUploadOf(calls[p], "proposal-single")
        /\ IsUploadOf(calls[s], "cw4-stake")
        /\ calls[k].op = "instantiate"
        /\ calls[k].to \in ReturnedBy(d)
        /\ calls[k].msg.voting_module_instantiate_info.code_id \in ReturnedBy(s)
        /\ calls[k].msg.proposal_modules_instantiate_info[1].code_id \in ReturnedBy(p)
        /\ calls[k].msg.voting_module_instantiate_info.msg.cw20_contract \in ReturnedBy(t)

(* C12: in index.js every value placed in the DAO core instantiate message *)
(* equals the value returned by the earlier call: the three code IDs are   *)
(* the ones returned by the three uploads, all answered before the DAO     *)
(* instantiate is issued, and cw20_contract is the address returned by the *)
(* CW20 token instantiate of the same run.  Stated on the finished run: a  *)
(* run of index.js in which every call succeeded has issued that           *)
(* instantiate, with those values.  It fails: main stops at its first use  *)
(* of wallet, and the argument it would pass as cw20Contract is not        *)
(* declared either.                                                        *)
C12_DaoMessageFromEarlierCalls ==
    (version = "index.js" /\ pc = "exited" /\ MnemonicIsValid /\ ChainIdMatches
        /\ EveryCallSucceeded)
        => \E k \in 1..Len(calls) : DaoCoreInstantiateAt(k)

----------------------------------------------------------------------------
\* the requests issued by storeContract and by instantiateContract
AtHelperCallSite(req) ==
    \/ req.op = "upload"
    \/ \E codeId \in {tokenCodeId, factoryCodeId, multiHopCodeId,
                      gaugeOrchestratorCodeId} : IsInstantiateOf(req, codeId)

(* C13: at the call sites of storeContract and instantiateContract a       *)
(* client error whose message contains the base64 string does not abort    *)
(* the run: the helper returns without throwing and main proceeds to its   *)
(* next step; any other error is thrown again unchanged, and ends the run. *)
(* It fails in instantiateContract when the error carries an upload        *)
(* receipt: the branch that would return its code ID names the undeclared  *)
(* label and throws a ReferenceError, which ends the run.                  *)
C13_Base64ErrorDoesNotAbort ==
    \A j \in 1..Len(results) :
        (~results[j].ok /\ AtHelperCallSite(calls[results[j].call])) =>
            IF IsBase64Error(results[j].error)
            THEN j = Len(results) => exitStatus # 1
            ELSE /\ j = Len(results)
                 /\ exitStatus = 1
                 /\ stderr = <<results[j].error>>

----------------------------------------------------------------------------
\* the create-pair executes issued so far, as indices into calls
CreatePairCalls == {k \in 1..Len(calls) : IsCreatePair(calls[k])}

\* the create-pair executes issued so far are the first entries of
\* config.create_pairs, in config order, each sent to the factory address
PairsSentInOrder ==
    /\ Cardinality(CreatePairCalls) <= Len(local.factoryConfig.create_pairs)
    /\ \A k \in CreatePairCalls :
          LET i == Cardinality({m \in CreatePairCalls : m <= k})
          IN  calls[k] = Request("execute", local.factoryAddress,
                                 local.factoryConfig.create_pairs[i])

\* the call of the i-th create-pair message
CreatePairCall(i) ==
    CHOOSE k \in CreatePairCalls : Cardinality({m \in CreatePairCalls : m <= k}) = i

\* createPairsAndDistributionFlows of index.js, called on its own, returned
IndexPairsReturned ==
    /\ ret.helper = "createPairsAndDistributionFlows"
    /\ pc = "returned"
    /\ ~ret.threw

\* createPairsAndDistributionFlows of part_000 returned to main, which goes
\* on to instantiate the gauge orchestrator
PartPairsReturned ==
    /\ version = "part_000"
    /\ \E k \in 1..Len(calls) : IsInstantiateOf(calls[k], gaugeOrchestratorCodeId)

\* the list has exactly one entry per message, in message order, holding the
\* values the transaction of that message returned
OnePairPerMessage(pairs) ==
    /\ Cardinality(CreatePairCalls) = Len(local.factoryConfig.create_pairs)
    /\ Len(pairs) = Len(local.factoryConfig.create_pairs)
    /\ \A i \in 1..Len(pairs) :
          {pairs[i].pairName, pairs[i].pairAddress} = ReturnedBy(CreatePairCall(i))

(* C14: createPairsAndDistributionFlows sends exactly one execute to the   *)
(* factory address per entry of config.create_pairs, in config order, and  *)
(* returns a list with exactly one {pairName, pairAddress} entry per       *)
(* message, in the same order, whose values are the pair and               *)
(* pair_contract_addr attributes of the wasm event of that message's       *)
(* transaction.  As stated, for both versions; it fails for index.js.      *)
C14_OnePairPerMessage ==
    /\ PairsSentInOrder
    /\ IndexPairsReturned => OnePairPerMessage(ret.value)
    /\ PartPairsReturned => OnePairPerMessage(local.pairs)

\* an event of the j-th answer for which index.js records a pair: its
\* trimmed type is wasm and it has both attributes
IsPairEvent(e) ==
    /\ Trim(e.type) = "wasm"
    /\ \E a \in e.attributes : a.key = "pair"
    /\ \E a \in e.attributes : a.key = "pair_contract_addr"

\* how many such events the first j answers carried
RECURSIVE PairEventsUpTo(_)
PairEventsUpTo(j) ==
    IF j = 0
    THEN 0
    ELSE PairEventsUpTo(j - 1) +
         Cardinality({p \in 1..Len(results[j].events) : IsPairEvent(results[j].events[p])})

\* the list has, message after message, one entry for each wasm event of the
\* message's transaction that carries both attributes
OnePairPerPairEvent(pairs) ==
    /\ Cardinality(CreatePairCalls) = Len(local.factoryConfig.create_pairs)
    /\ Len(pairs) = PairEventsUpTo(Len(results))
    /\ \A j \in 1..Len(results) :
          \A q \in (PairEventsUpTo(j - 1) + 1)..PairEventsUpTo(j) :
              {pairs[q].pairName, pairs[q].pairAddress} = ReturnedBy(CreatePairCall(j))

\* index.js throws out of the loop only the client's error, or its own
\* error when the transaction carried no wasm event at all
IndexPairsThrowsOnly ==
    (ret.helper = "createPairsAndDistributionFlows" /\ ret.threw) =>
        LET last == results[Len(results)]
        IN  IF last.ok
            THEN /\ ret.error = NoWasmEventsError
                 /\ \A p \in 1..Len(last.events) : Trim(last.events[p].type) # "wasm"
            ELSE ret.error = last.error

(* C14, amended: createPairsAndDistributionFlows sends one execute to the  *)
(* factory address per entry of config.create_pairs, in config order; when *)
(* it returns, part_000 returns exactly one entry per message, from the    *)
(* first wasm event of the message's transaction, while index.js returns,  *)
(* message after message, one entry for every wasm event (type compared    *)
(* after trimming) that has both the pair and the pair_contract_addr       *)
(* attribute: none for a transaction whose wasm events lack them, several  *)
(* for one with several such events; index.js throws when a transaction    *)
(* carries no wasm event.                                                  *)
C14_OnePairPerPairEvent ==
    /\ PairsSentInOrder
    /\ IndexPairsReturned => OnePairPerPairEvent(ret.value)
    /\ IndexPairsThrowsOnly
    /\ PartPairsReturned => OnePairPerMessage(local.pairs)

\* index.js returned three pairs for two messages, one of them from an
\* event whose type is padded
C14_Witness ==
    /\ IndexPairsReturned
    /\ Len(local.factoryConfig.create_pairs) = 2
    /\ Len(ret.value) = 3
    /\ \E p \in 1..Len(results[1].events) : results[1].events[p].type = " wasm"

----------------------------------------------------------------------------
\* the create-gauge executes issued so far, as indices into calls
CreateGaugeCalls == {k \in 1..Len(calls) : IsCreateGauge(calls[k])}

\* the call of the i-th create-gauge message
CreateGaugeCall(i) ==
    CHOOSE k \in CreateGaugeCalls : Cardinality({m \in CreateGaugeCalls : m <= k}) = i

\* the addresses the gauge orchestrator instantiate of the run returned
OrchestratorReturned ==
    UNION {ReturnedBy(k) : k \in {o \in 1..Len(calls) :
                                    IsInstantiateOf(calls[o], gaugeOrchestratorCodeId)}}

\* the create-gauge executes issued so far are the first messages of the
\* list createGauges was given, in order
GaugesSentInOrder ==
    /\ Cardinality(CreateGaugeCalls) <= Len(local.gaugesConfig.gauges)
    /\ \A k \in CreateGaugeCalls :
          LET i == Cardinality({m \in CreateGaugeCalls : m <= k})
          IN  /\ calls[k].op = "execute"
              /\ calls[k].msg = local.gaugesConfig.gauges[i]

\* createGauges returned: one entry per message, in order, with the title of
\* the message and the address its transaction returned
OneGaugePerMessage ==
    written # <<>> =>
        /\ Cardinality(CreateGaugeCalls) = Len(local.gaugesConfig.gauges)
        /\ Len(local.gauges) = Len(local.gaugesConfig.gauges)
        /\ \A i \in 1..Len(local.gauges) :
              /\ local.gauges[i].gaugeLabel = local.gaugesConfig.gauges[i].create_gauge.title
              /\ {local.gauges[i].gaugeAddress} = ReturnedBy(CreateGaugeCall(i))

(* C15: createGauges sends exactly one execute to the gauge orchestrator   *)
(* address per create_gauge message, in order, and returns one             *)
(* {gaugeLabel, gaugeAddress} entry per message in the same order, the     *)
(* label being the title of the message and the address the                *)
(* _contract_address attribute of the first wasm event of the message's    *)
(* transaction; the orchestrator address used is the one returned by the   *)
(* gauge orchestrator instantiate of the same run.  The last part fails    *)
(* when instantiateContract swallowed the base64 error of that             *)
(* instantiate: the executes are sent to undefined.                        *)
C15_GaugesViaOrchestrator ==
    /\ GaugesSentInOrder
    /\ OneGaugePerMessage
    /\ \A k \in CreateGaugeCalls : calls[k].to \in OrchestratorReturned

----------------------------------------------------------------------------
\* the contract addresses the instantiates of the run returned
InstantiateReturned ==
    UNION {ReturnedBy(k) : k \in {o \in 1..Len(calls) : calls[o].op = "instantiate"}}

\* the values main uses as a contract address: the target of every execute
\* and the addresses of the report
UsedAsAddress ==
    {calls[k].to : k \in {e \in 1..Len(calls) : calls[e].op = "execute"}} \cup
    UNION {{written[w].factoryAddress, written[w].multiHopAddress,
            written[w].gaugeOrchestratorAddress} : w \in 1..Len(written)}

(* C16: every value main uses as a contract address, as the target of an   *)
(* execute or as an address of the report, is a contractAddress returned   *)
(* by a successful instantiate of the same run: never undefined and never  *)
(* a code ID, also in the runs in which instantiateContract swallowed the  *)
(* base64 error.  It fails: part_000 takes the factory address from a      *)
(* literal, and instantiateContract returns undefined after swallowing.    *)
C16_AddressesFromInstantiates == UsedAsAddress \subseteq InstantiateReturned

----------------------------------------------------------------------------
\* every chain transaction issued in the run has been answered
EveryTransactionAnswered ==
    /\ inflight = {}
    /\ \A k \in 1..Len(calls) :
          IsTransaction(calls[k]) => \E j \in 1..Len(results) : results[j].call = k

(* C17: the process exits with status 0, printing "All done, let the coins *)
(* flow.", only after result.json has been written; result.json is written *)
(* at most once per run, and only after every chain transaction of the run *)
(* has completed; a run that exits with status 1 has not written           *)
(* result.json.                                                            *)
C17_ReportThenExitZero ==
    /\ (exitStatus = 0 \/ InSeq("All done, let the coins flow.", stdout))
          => (Len(written) = 1 /\ exitStatus = 0)
    /\ Len(written) <= 1
    /\ written # <<>> => (EveryTransactionAnswered /\ pc = "exited")
    /\ exitStatus = 1 => written = <<>>

\* a run that sent transactions and created a gauge has written result.json
\* and exited with status 0
C17_Witness ==
    /\ exitStatus = 0
    /\ Len(written) = 1
    /\ InSeq("All done, let the coins flow.", stdout)
    /\ CreateGaugeCalls # {}
    /\ \E k \in 1..Len(calls) : calls[k].op = "instantiate"

====
